---- MODULE Spec2Model ----
(***************************************************************************)
(* Archive assembly of the GT New Horizons pack: the launcher-format       *)
(* assembler (gtnh/assembler/multi_poly.py), the plain assembler           *)
(* (gtnh/assembler/modrinth.py) and the side selection of the earlier      *)
(* packaging functions of gtnh/gui.py.                                     *)
(*                                                                         *)
(* Strings that are paths are sequences of tokens in which the separator   *)
(* "/" is a token of its own: "sub/b.cfg" is <<"sub", "/", "b.cfg">> and   *)
(* the directory entry "sub/" is <<"sub", "/">>.                           *)
(***************************************************************************)
EXTENDS FiniteSets, Integers, Sequences, TLC

(***************************************************************************)
(* Bounds of the model.                                                    *)
(***************************************************************************)
MaxMods == 2
MaxConfig == 2

(***************************************************************************)
(* Data model.                                                             *)
(***************************************************************************)
Sides == {"CLIENT", "SERVER"}

Formats == {"MMC", "MODRINTH"}

Versions == {"2.1.0", "2.2.0"}

ModPool ==
    { [name |-> "A", side |-> "BOTH", filename |-> "A-1.0.jar"],
      [name |-> "B", side |-> "CLIENT", filename |-> "B-2.0.jar"],
      [name |-> "C", side |-> "SERVER", filename |-> "C-3.0.jar"] }

ConfigPool ==
    { <<"configA.cfg">>, <<"sub", "/">>, <<"sub", "/", "b.cfg">> }

ExclusionPool ==
    { <<"sub", "/", "b.cfg">>, <<"sub">> }

NoFile == [exists |-> FALSE, entries |-> <<>>]

MMC_PACK_JSON == <<"MMC_PACK_JSON">>

RELEASE_MMC_DIR == <<"releases", "/", "mmc">>

RELEASE_MODRINTH_DIR == <<"releases", "/", "modrinth">>

CONFIG_ARTIFACT == "config"

InjectiveSeqs(S, lo, hi) ==
    { s \in UNION { [1..k -> S] : k \in lo..hi } :
        \A i, j \in DOMAIN s : i # j => s[i] # s[j] }

ModLists == InjectiveSeqs(ModPool, 0, MaxMods)

ConfigBundles == InjectiveSeqs(ConfigPool, 1, MaxConfig)

VARIABLES
    release,            \* the Release the assembler is bound to
    exclusions,         \* side -> set of excluded config paths
    cache,              \* artifacts present in the local cache
    fmt,                \* class of the assembler instance
    progress_callback,  \* "None" or "callable"
    fs,                 \* destination path -> the zip file there, or NoFile
    pc,                 \* position inside assemble
    side,               \* argument of the assemble call in progress
    idx,                \* loop index of add_mods / add_config
    err,                \* exception that left assemble, or "None"
    log,                \* progress callback invocations of the current call
    gtnh_modpack,       \* manifest used by the packaging functions of gui.py
    client_paths,       \* download_mods: paths of the client side mods
    server_paths,       \* download_mods: paths of the server side mods
    prev,               \* archive left by the completed call this call repeats, or NoFile
    is_messagebox_open, \* AddRepoFrame: a dialog of validate_callback is showing
    saved,              \* github_mods of the manifest on disk
    invocation,         \* validate_callback in progress (at its dialog), or NoCall
    ret,                \* the return of validate_callback just delivered, or NoCall
    validate_err,       \* exception that left the last validate_callback, or "None"
    listbox,            \* CustomLabelFrame: the entries of the listbox
    selection,          \* index of the selected entry, 0 when none is selected
    add_callback,       \* "None" or "callable"
    delete_callback,    \* "None" or "callable"
    last_remove,        \* what the remove just executed did, or NoCall
    start_pc,           \* ArchiveFrame.start: "idle", "ready" (before a stage) or "running"
    stage,              \* number of the stage start is at
    progress_bar_global,\* value of the global progress bar, in hundredths of a percent
    stage_log,          \* the stages started by the current start, with the progress shown
    start_err,          \* exception that left the last start, or "None"
    caught,             \* exception the handler of the last start caught, or "None"
    progress_bar,       \* value of the task progress bar, in hundredths of a percent
    task,               \* running stage: files to process (n) and files announced (i)
    runs,               \* number of times the start button was pressed
    excl_listbox,       \* exclusions editor: mode -> entries of the listbox of that side
    excl_selection,     \* mode -> index of the selected entry, 0 when none is selected
    saved_exclusions,   \* mode -> exclusion list of the manifest on disk
    last_edit,          \* the add or remove the editor just executed, or NoCall
    baseline,           \* what a side got before the other side's exclusions changed, or NoCall
    gtnh_archive,       \* handle_pack_extra_files: names in the downloaded pack archive
    extra_files         \* side -> the files selected by the last call, or NoCall

vars == <<release, exclusions, cache, fmt, progress_callback, fs, pc, side, idx, err, log,
          gtnh_modpack, client_paths, server_paths, prev,
          is_messagebox_open, saved, invocation, ret, validate_err,
          listbox, selection, add_callback, delete_callback, last_remove,
          start_pc, stage, progress_bar_global, stage_log, start_err, caught,
          progress_bar, task, runs,
          excl_listbox, excl_selection, saved_exclusions, last_edit,
          baseline, gtnh_archive, extra_files>>

asmConst == <<release, exclusions, cache, fmt, progress_callback>>

\* state of the tkinter frames
repoVars == <<is_messagebox_open, saved, invocation, ret, validate_err>>

labelVars == <<listbox, selection, add_callback, delete_callback, last_remove>>

startVars == <<start_pc, stage, progress_bar_global, stage_log, start_err, caught,
               progress_bar, task, runs>>

exclVars == <<excl_listbox, excl_selection, saved_exclusions, last_edit>>

sidesVars == <<baseline, gtnh_archive, extra_files>>

tkVars == <<repoVars, labelVars, startVars, exclVars, sidesVars>>

guiVars == <<gtnh_modpack, client_paths, server_paths, tkVars>>

\* everything but the manifest and the frames
toolVars == <<release, exclusions, cache, fmt, progress_callback, fs, pc, side, idx, err, log,
              client_paths, server_paths, prev>>

(***************************************************************************)
(* Paths.                                                                  *)
(***************************************************************************)
RECURSIVE StripTrailingSep(_)
StripTrailingSep(s) ==
    IF Len(s) > 1 /\ s[Len(s)] = "/"
    THEN StripTrailingSep(SubSeq(s, 1, Len(s) - 1))
    ELSE s

RECURSIVE CollapseSeps(_)
CollapseSeps(s) ==
    IF Len(s) < 2 THEN s
    ELSE IF s[1] = "/" /\ s[2] = "/" THEN CollapseSeps(Tail(s))
    ELSE <<s[1]>> \o CollapseSeps(Tail(s))

\* pathlib.Path(s): repeated and trailing separators are dropped
Path(s) == StripTrailingSep(CollapseSeps(s))

\* pathlib: p / name
PathJoin(p, name) == Path(p \o <<"/">> \o name)

RECURSIVE PathName(_)
\* pathlib: p.name, the final component
PathName(p) ==
    IF \E i \in 1..Len(p) : p[i] = "/"
    THEN PathName(Tail(p))
    ELSE p

EndsWithSep(s) == Len(s) > 0 /\ s[Len(s)] = "/"

StartsWith(s, prefix) ==
    Len(s) >= Len(prefix) /\ SubSeq(s, 1, Len(prefix)) = prefix

(***************************************************************************)
(* Cache Locator.                                                          *)
(***************************************************************************)
get_asset_version_cache_location(mod) ==
    <<"cache", "/", "mods", "/", mod.name, "/", mod.filename>>

get_config_cache_location(rel) ==
    <<"cache", "/", "config", "/", rel.version \o ".zip">>

Resolves(artifact) == artifact \in cache

(***************************************************************************)
(* Zip archives: a sequence of entries, each with its name, its payload    *)
(* (the file it was copied from) and the method that wrote it.             *)
(***************************************************************************)
ZipEntry(name, data, writer) == [name |-> name, data |-> data, by |-> writer]

\* variant: an existing file is kept and written after its entries
ZipOpenWrite_Keeping(archive) == [exists |-> TRUE, entries |-> archive.entries]

\* ZipFile(path, "w"): the file is created, an existing one is replaced
ZipOpenWrite(archive) == [exists |-> TRUE, entries |-> <<>>]

\* archive.write / archive.open(name, "w") / archive.writestr: one more entry
ZipAdd(archive, entry) == [archive EXCEPT !.entries = Append(@, entry)]

\* variant: the archive is reopened in write mode
ZipOpenAppend_Truncating(archive) == [exists |-> TRUE, entries |-> <<>>]

\* ZipFile(path, "a") of add_mmc_meta_data: an existing archive keeps its entries
ZipOpenAppend(archive) == [exists |-> TRUE, entries |-> archive.entries]

(***************************************************************************)
(* MMCAssembler.                                                           *)
(***************************************************************************)
mmc_archive_root(rel) == Path(<<"GT New Horizons " \o rel.version>>)

\* variant: the directory name lacks its dot
mmc_modpack_files_NoDot(rel) == PathJoin(mmc_archive_root(rel), <<"minecraft">>)

mmc_modpack_files(rel) == PathJoin(mmc_archive_root(rel), <<".minecraft">>)

mmc_modpack_mods(rel) == PathJoin(mmc_modpack_files(rel), <<"mods">>)

\* variant: the path of the source file is kept below the mod directory
MMC_mod_archive_path_SubPath(rel, source_file) ==
    PathJoin(mmc_modpack_mods(rel), source_file)

MMC_mod_archive_path(rel, source_file) ==
    PathJoin(mmc_modpack_mods(rel), PathName(source_file))

\* variant: the entry name is built as a Path, which drops a trailing separator
MMC_config_archive_path_AsPath(rel, item) == PathJoin(mmc_modpack_files(rel), item)

MMC_config_archive_path(rel, item) ==
    mmc_modpack_files(rel) \o <<"/">> \o item

\* variant: exclusions compared by file name only
MMC_is_excluded_ByName(item, excluded) ==
    PathName(Path(item)) \in { PathName(Path(x)) : x \in excluded }

\* variant: exclusions compared as Path objects
MMC_is_excluded_AsPaths(item, excluded) == Path(item) \in { Path(x) : x \in excluded }

MMC_is_excluded(item, excluded) == item \in excluded

\* variant: the entries are enumerated from the last to the first
config_namelist_Reversed(rel) ==
    [i \in 1..Len(rel.config) |-> rel.config[Len(rel.config) + 1 - i]]

config_namelist(rel) == rel.config

MMC_meta_data_path(rel) ==
    mmc_archive_root(rel) \o <<"/">> \o <<"mmc-pack.json">>

MMC_get_archive_path(rel, s) ==
    RELEASE_MMC_DIR \o <<"/", "GT New Horizons " \o rel.version \o " (MMC).zip">>

\* variant: the side check is missing
MMC_side_is_valid_Unchecked(s) == s \in Sides

MMC_side_is_valid(s) == s = "CLIENT"

(***************************************************************************)
(* ModrinthAssembler and the GenericAssembler it inherits from.            *)
(***************************************************************************)
\* variant: the file name does not carry the side
Modrinth_get_archive_path_NoSide(rel, s) ==
    RELEASE_MODRINTH_DIR \o <<"/", "GTNewHorizons-" \o rel.version \o ".zip">>

Modrinth_get_archive_path(rel, s) ==
    RELEASE_MODRINTH_DIR \o <<"/", "GTNewHorizons-" \o s \o "-" \o rel.version \o ".zip">>

Generic_mod_archive_path(rel, source_file) ==
    PathJoin(<<"mods">>, PathName(source_file))

Generic_config_archive_path(rel, item) == item

Generic_is_excluded(item, excluded) == item \in excluded

IsIncluded(mod, s) == mod.side = s \/ mod.side = "BOTH"

get_mods(rel, s) == SelectSeq(rel.mods, LAMBDA mod : IsIncluded(mod, s))

(***************************************************************************)
(* Dispatch on the class of the assembler.                                 *)
(***************************************************************************)
get_archive_path(f, rel, s) ==
    IF f = "MMC" THEN MMC_get_archive_path(rel, s) ELSE Modrinth_get_archive_path(rel, s)

mod_archive_path(f, rel, source_file) ==
    IF f = "MMC" THEN MMC_mod_archive_path(rel, source_file)
    ELSE Generic_mod_archive_path(rel, source_file)

config_archive_path(f, rel, item) ==
    IF f = "MMC" THEN MMC_config_archive_path(rel, item)
    ELSE Generic_config_archive_path(rel, item)

\* variant of is_excluded: an item excluded for any side is excluded
is_excluded_ForAnySide(f, item, s) == \E t \in Sides : item \in exclusions[t]

is_excluded(f, item, s) ==
    IF f = "MMC" THEN MMC_is_excluded(item, exclusions[s])
    ELSE Generic_is_excluded(item, exclusions[s])

Destinations(rel) == { get_archive_path(f, rel, s) : f \in Formats, s \in Sides }

dest == get_archive_path(fmt, release, side)

ZipWrite(entry) == [fs EXCEPT ![dest] = ZipAdd(@, entry)]

\* the step of one progress report, as the fraction num / den of a percentage
get_progress(rel, s) == [num |-> 100, den |-> Len(get_mods(rel, s)) + 1]

\* update_progress: the callback, when there is one, is invoked once
update_progress(file, raised) ==
    IF progress_callback = "None" THEN log
    ELSE Append(log, [side |-> side, file |-> file, raised |-> raised,
                      delta |-> get_progress(release, side)])

RECURSIVE SumOfDeltas(_)
\* the caller's accumulation of the reported deltas, as a fraction
SumOfDeltas(events) ==
    IF events = <<>> THEN [num |-> 0, den |-> 1]
    ELSE LET d == Head(events).delta
             r == SumOfDeltas(Tail(events))
         IN  [num |-> d.num * r.den + r.num * d.den, den |-> d.den * r.den]

\* variant: the exception is caught and the call goes on
Raise_Swallowed(e) == pc' = pc /\ err' = err

\* an exception leaves assemble: no handler in assemble, add_mods or add_config
Raise(e) == pc' = "raised" /\ err' = e

(***************************************************************************)
(* Initial state: an assembler constructed for a Release, nothing built.   *)
(***************************************************************************)
NoCall == [repo_name |-> "None"]

\* the frames as constructed, nothing pressed
RepoIdle ==
    /\ is_messagebox_open = FALSE
    /\ saved = <<>>
    /\ invocation = NoCall
    /\ ret = NoCall
    /\ validate_err = "None"

LabelIdle ==
    /\ listbox = <<>>
    /\ selection = 0
    /\ add_callback = "None"
    /\ delete_callback = "None"
    /\ last_remove = NoCall

StartIdle ==
    /\ start_pc = "idle"
    /\ stage = 0
    /\ progress_bar_global = 0
    /\ stage_log = <<>>
    /\ start_err = "None"
    /\ caught = "None"
    /\ progress_bar = 0
    /\ task = [n |-> 0, i |-> 0]
    /\ runs = 0

Modes == {"client", "server"}

ExclIdle ==
    /\ excl_listbox = [m \in Modes |-> <<>>]
    /\ excl_selection = [m \in Modes |-> 0]
    /\ saved_exclusions = [m \in Modes |-> <<>>]
    /\ last_edit = NoCall

SidesIdle ==
    /\ baseline = NoCall
    /\ gtnh_archive = {}
    /\ extra_files = NoCall

TkIdle == RepoIdle /\ LabelIdle /\ StartIdle /\ ExclIdle /\ SidesIdle

NoModpack ==
    [github_mods |-> <<>>, client_exclusions |-> <<>>, server_exclusions |-> <<>>,
     modpack_version |-> "2.1.0"]

Init ==
    /\ release \in { [version |-> v, mods |-> m, config |-> c] :
                        v \in Versions, m \in ModLists, c \in ConfigBundles }
    /\ exclusions \in { [s \in Sides |-> IF s = "CLIENT" THEN ec ELSE es] :
                        ec \in SUBSET ExclusionPool,
                        es \in {{}, {<<"sub", "/", "b.cfg">>}} }
    /\ \E missing \in {{}} \cup { {a} : a \in {release.mods[i].name : i \in DOMAIN release.mods}
                                              \cup {CONFIG_ARTIFACT} } :
          cache = ({m.name : m \in ModPool} \cup {CONFIG_ARTIFACT}) \ missing
    /\ fmt \in Formats
    /\ progress_callback \in {"None", "callable"}
    /\ fs = [d \in Destinations(release) |-> NoFile]
    /\ pc = "idle"
    /\ side = "CLIENT"
    /\ idx = 0
    /\ err = "None"
    /\ log = <<>>
    /\ gtnh_modpack = NoModpack
    /\ client_paths = <<>>
    /\ server_paths = <<>>
    /\ prev = NoFile
    /\ TkIdle

(***************************************************************************)
(* assemble(side): entry.  The launcher format rejects every side but      *)
(* CLIENT; otherwise the base assemble opens the destination for writing.  *)
(***************************************************************************)
Assemble(s) ==
    /\ pc \in {"idle", "done", "raised"}
    /\ side' = s
    /\ log' = <<>>
    /\ idx' = 1
    /\ IF fmt = "MMC" /\ ~MMC_side_is_valid(s)
       THEN /\ Raise("ValueError")
            /\ UNCHANGED fs
       ELSE /\ pc' = "add_mods"
            /\ err' = "None"
            /\ fs' = [fs EXCEPT ![get_archive_path(fmt, release, s)] = ZipOpenWrite(@)]
    /\ prev' = IF pc = "done" /\ side = s THEN fs[get_archive_path(fmt, release, s)]
               ELSE NoFile
    /\ UNCHANGED <<asmConst, guiVars>>

\* variant of AddMod: a mod that is not in the cache is skipped
AddMod_SkipMissing ==
    /\ pc = "add_mods"
    /\ idx <= Len(get_mods(release, side))
    /\ LET mod == get_mods(release, side)[idx]
           source_file == get_asset_version_cache_location(mod)
       IN  \/ /\ ~Resolves(mod.name)
              /\ idx' = idx + 1
              /\ UNCHANGED <<fs, log, pc, err>>
           \/ /\ Resolves(mod.name)
              /\ log' = update_progress(source_file, FALSE)
              /\ fs' = ZipWrite(ZipEntry(mod_archive_path(fmt, release, source_file),
                                         source_file, "add_mods"))
              /\ idx' = idx + 1
              /\ UNCHANGED <<pc, err>>
    /\ UNCHANGED <<asmConst, guiVars, prev, side>>

(***************************************************************************)
(* One iteration of the loop of add_mods.                                  *)
(***************************************************************************)
AddMod ==
    /\ pc = "add_mods"
    /\ idx <= Len(get_mods(release, side))
    /\ LET mod == get_mods(release, side)[idx]
           source_file == get_asset_version_cache_location(mod)
       IN  \/ /\ ~Resolves(mod.name)
              /\ Raise("FileNotFoundError")
              /\ UNCHANGED <<fs, log, idx>>
           \/ /\ Resolves(mod.name)
              /\ progress_callback # "None"
              /\ log' = update_progress(source_file, TRUE)
              /\ Raise("CallbackError")
              /\ UNCHANGED <<fs, idx>>
           \/ /\ Resolves(mod.name)
              /\ log' = update_progress(source_file, FALSE)
              /\ fs' = ZipWrite(ZipEntry(mod_archive_path(fmt, release, source_file),
                                         source_file, "add_mods"))
              /\ idx' = idx + 1
              /\ UNCHANGED <<pc, err>>
    /\ UNCHANGED <<asmConst, guiVars, prev, side>>

\* variant of AddModsReturn: a loop that never ran is an error
AddModsReturn_EmptyFails ==
    /\ pc = "add_mods"
    /\ idx > Len(get_mods(release, side))
    /\ IF Len(get_mods(release, side)) = 0
       THEN Raise("ZeroDivisionError")
       ELSE pc' = "add_config" /\ UNCHANGED err
    /\ UNCHANGED <<asmConst, guiVars, prev, fs, side, idx, log>>

AddModsReturn ==
    /\ pc = "add_mods"
    /\ idx > Len(get_mods(release, side))
    /\ pc' = "add_config"
    /\ UNCHANGED <<asmConst, guiVars, prev, fs, side, idx, err, log>>

\* variant of AddConfigOpen: the config step reports no progress
AddConfigOpen_NoProgress ==
    /\ pc = "add_config"
    /\ \/ /\ ~Resolves(CONFIG_ARTIFACT)
          /\ Raise("FileNotFoundError")
          /\ UNCHANGED idx
       \/ /\ Resolves(CONFIG_ARTIFACT)
          /\ pc' = "config_items"
          /\ idx' = 1
          /\ UNCHANGED err
    /\ UNCHANGED <<asmConst, guiVars, prev, fs, side, log>>

(***************************************************************************)
(* add_config: the config bundle is resolved and opened, progress is       *)
(* reported once.                                                          *)
(***************************************************************************)
AddConfigOpen ==
    /\ pc = "add_config"
    /\ LET config_file == get_config_cache_location(release)
       IN  \/ /\ ~Resolves(CONFIG_ARTIFACT)
              /\ Raise("FileNotFoundError")
              /\ UNCHANGED <<log, idx>>
           \/ /\ Resolves(CONFIG_ARTIFACT)
              /\ progress_callback # "None"
              /\ log' = update_progress(config_file, TRUE)
              /\ Raise("CallbackError")
              /\ UNCHANGED idx
           \/ /\ Resolves(CONFIG_ARTIFACT)
              /\ log' = update_progress(config_file, FALSE)
              /\ pc' = "config_items"
              /\ idx' = 1
              /\ UNCHANGED err
    /\ UNCHANGED <<asmConst, guiVars, prev, fs, side>>

\* variant of AddConfigItem: progress is reported for every entry of the bundle
AddConfigItem_ReportsEach ==
    /\ pc = "config_items"
    /\ idx <= Len(config_namelist(release))
    /\ LET item == config_namelist(release)[idx]
       IN  /\ fs' = IF is_excluded(fmt, item, side) THEN fs
                    ELSE ZipWrite(ZipEntry(config_archive_path(fmt, release, item),
                                           item, "add_config"))
           /\ log' = update_progress(item, FALSE)
    /\ idx' = idx + 1
    /\ UNCHANGED <<asmConst, guiVars, prev, pc, side, err>>

(***************************************************************************)
(* One iteration of the loop over config_zip.namelist().                   *)
(***************************************************************************)
AddConfigItem ==
    /\ pc = "config_items"
    /\ idx <= Len(config_namelist(release))
    /\ LET item == config_namelist(release)[idx]
       IN  fs' = IF is_excluded(fmt, item, side) THEN fs
                 ELSE ZipWrite(ZipEntry(config_archive_path(fmt, release, item),
                                        item, "add_config"))
    /\ idx' = idx + 1
    /\ UNCHANGED <<asmConst, guiVars, prev, pc, side, err, log>>

(***************************************************************************)
(* The output archive is closed and the base assemble returns.             *)
(***************************************************************************)
AssembleReturn ==
    /\ pc = "config_items"
    /\ idx > Len(config_namelist(release))
    /\ pc' = IF fmt = "MMC" /\ side = "CLIENT" THEN "add_mmc_meta_data" ELSE "done"
    /\ UNCHANGED <<asmConst, guiVars, prev, fs, side, idx, err, log>>

(***************************************************************************)
(* add_mmc_meta_data: the archive is reopened in append mode.              *)
(***************************************************************************)
AddMmcMetaData ==
    /\ pc = "add_mmc_meta_data"
    /\ fs' = [fs EXCEPT ![MMC_get_archive_path(release, side)] =
                ZipAdd(ZipOpenAppend(@),
                       ZipEntry(MMC_meta_data_path(release), MMC_PACK_JSON,
                                "add_mmc_meta_data"))]
    /\ pc' = "done"
    /\ UNCHANGED <<asmConst, guiVars, prev, side, idx, err, log>>

Next ==
    \/ \E s \in Sides : Assemble(s)
    \/ AddMod
    \/ AddModsReturn
    \/ AddConfigOpen
    \/ AddConfigItem
    \/ AssembleReturn
    \/ AddMmcMetaData

Spec == Init /\ [][Next]_vars

(***************************************************************************)
(* gui.py, download_mods: the mods of the manifest are downloaded and      *)
(* their paths sorted into the client and the server list.                 *)
(***************************************************************************)
GithubModPool ==
    { [name |-> n, side |-> s] : n \in {"A", "B", "C"}, s \in {"BOTH", "CLIENT", "SERVER"} }

GithubModLists ==
    { s \in UNION { [1..k -> GithubModPool] : k \in 0..MaxMods } :
        \A i, j \in DOMAIN s : i # j => s[i].name # s[j].name }

download_mod(mod) == << <<"cache", "/", mod.name \o ".jar">> >>

\* pathlib: p.relative_to(root)
relative_to(p, root) == SubSeq(p, Len(root) + 2, Len(p))

\* copy_file_to_folder: where the files of path_list end up below destination_root
copy_file_to_folder(path_list, source_root, destination_root) ==
    [i \in DOMAIN path_list |->
        PathJoin(destination_root, relative_to(path_list[i], source_root))]

archive_folder(s) ==
    <<"cache", "/", IF s = "CLIENT" THEN "client_archive" ELSE "server_archive">>

\* the files handed to pack_clientpack / pack_serverpack: the mods move_mods
\* has copied into the archive folder of the side
packed_paths(s) ==
    copy_file_to_folder(IF s = "CLIENT" THEN client_paths ELSE server_paths,
                        <<"cache">>, archive_folder(s))

archive_name(s, pack_version) ==
    <<"cache", "/", (IF s = "CLIENT" THEN "client-" ELSE "server-") \o pack_version \o ".zip">>

pack_writer(s) == IF s = "CLIENT" THEN "pack_clientpack" ELSE "pack_serverpack"

GoesToClient(mod) == mod.side = "BOTH" \/ (mod.side # "BOTH" /\ mod.side = "CLIENT")

\* variant: the last branch tests the wrong side
GoesToServer_WrongSide(mod) == mod.side = "BOTH"

GoesToServer(mod) ==
    mod.side = "BOTH" \/ (mod.side # "BOTH" /\ mod.side # "CLIENT" /\ mod.side = "SERVER")

InitPack ==
    /\ gtnh_modpack \in { [github_mods |-> m, client_exclusions |-> <<>>,
                           server_exclusions |-> <<>>, modpack_version |-> "2.1.0"] :
                            m \in GithubModLists }
    /\ progress_callback \in {"None", "callable"}
    /\ client_paths = <<>>
    /\ server_paths = <<>>
    /\ pc = "idle"
    /\ idx = 0
    /\ err = "None"
    /\ log = <<>>
    /\ release = [version |-> "2.1.0", mods |-> <<>>, config |-> << <<"configA.cfg">> >>]
    /\ exclusions = [s \in Sides |-> {}]
    /\ cache = {}
    /\ fmt = "MMC"
    /\ side = "CLIENT"
    /\ fs = [d \in Destinations(release)
                    \cup { archive_name(s, gtnh_modpack.modpack_version) : s \in Sides }
                |-> NoFile]
    /\ prev = NoFile
    /\ TkIdle

packFrame == <<release, exclusions, cache, fmt, fs, side, gtnh_modpack, progress_callback,
               prev, tkVars>>

DownloadModsCall ==
    /\ pc \in {"idle", "download_mods_returned", "packed", "raised"}
    /\ log' = <<>>
    /\ idx' = 1
    /\ client_paths' = <<>>
    /\ server_paths' = <<>>
    /\ IF Len(gtnh_modpack.github_mods) = 0
       THEN Raise("ZeroDivisionError")
       ELSE pc' = "download_mods" /\ err' = "None"
    /\ UNCHANGED packFrame

DownloadModsIter ==
    /\ pc = "download_mods"
    /\ idx <= Len(gtnh_modpack.github_mods)
    /\ LET mod == gtnh_modpack.github_mods[idx]
           paths == download_mod(mod)
       IN  \/ /\ progress_callback # "None"
              /\ log' = Append(log, [side |-> mod.side, file |-> mod.name, raised |-> TRUE])
              /\ Raise("CallbackError")
              /\ UNCHANGED <<client_paths, server_paths, idx>>
           \/ /\ log' = IF progress_callback = "None" THEN log
                        ELSE Append(log, [side |-> mod.side, file |-> mod.name, raised |-> FALSE])
              /\ client_paths' = IF GoesToClient(mod) THEN client_paths \o paths ELSE client_paths
              /\ server_paths' = IF GoesToServer(mod) THEN server_paths \o paths ELSE server_paths
              /\ idx' = idx + 1
              /\ UNCHANGED <<pc, err>>
    /\ UNCHANGED packFrame

DownloadModsReturn ==
    /\ pc = "download_mods"
    /\ idx > Len(gtnh_modpack.github_mods)
    /\ pc' = "download_mods_returned"
    /\ UNCHANGED <<packFrame, client_paths, server_paths, idx, err, log>>

(***************************************************************************)
(* pack_clientpack / pack_serverpack: the files of the side are zipped     *)
(* into client-<version>.zip / server-<version>.zip under their path       *)
(* relative to the archive folder.                                         *)
(***************************************************************************)
packConst == <<release, exclusions, cache, fmt, gtnh_modpack, progress_callback, prev,
               client_paths, server_paths, tkVars>>

PackCall(s) ==
    /\ pc \in {"download_mods_returned", "packed"}
    /\ side' = s
    /\ log' = <<>>
    /\ idx' = 1
    /\ IF Len(packed_paths(s)) = 0
       THEN /\ Raise("ZeroDivisionError")
            /\ UNCHANGED fs
       ELSE /\ pc' = "pack"
            /\ err' = "None"
            /\ fs' = [fs EXCEPT ![archive_name(s, gtnh_modpack.modpack_version)]
                                    = ZipOpenWrite(@)]
    /\ UNCHANGED packConst

\* variant of PackIter: the callback is called without the test for None
PackIter_CallsUnconditionally ==
    /\ pc = "pack"
    /\ idx <= Len(packed_paths(side))
    /\ LET mod_path == packed_paths(side)[idx]
       IN  \/ /\ progress_callback = "None"
              /\ Raise("TypeError")
              /\ UNCHANGED <<fs, log, idx>>
           \/ /\ progress_callback # "None"
              /\ log' = Append(log, [side |-> side, file |-> mod_path, raised |-> FALSE])
              /\ fs' = [fs EXCEPT ![archive_name(side, gtnh_modpack.modpack_version)] =
                          ZipAdd(@, ZipEntry(relative_to(mod_path, archive_folder(side)),
                                             mod_path, pack_writer(side)))]
              /\ idx' = idx + 1
              /\ UNCHANGED <<pc, err>>
    /\ UNCHANGED <<packConst, side>>

PackIter ==
    /\ pc = "pack"
    /\ idx <= Len(packed_paths(side))
    /\ LET mod_path == packed_paths(side)[idx]
       IN  \/ /\ progress_callback # "None"
              /\ log' = Append(log, [side |-> side, file |-> mod_path, raised |-> TRUE])
              /\ Raise("CallbackError")
              /\ UNCHANGED <<fs, idx>>
           \/ /\ log' = IF progress_callback = "None" THEN log
                        ELSE Append(log, [side |-> side, file |-> mod_path, raised |-> FALSE])
              /\ fs' = [fs EXCEPT ![archive_name(side, gtnh_modpack.modpack_version)] =
                          ZipAdd(@, ZipEntry(relative_to(mod_path, archive_folder(side)),
                                             mod_path, pack_writer(side)))]
              /\ idx' = idx + 1
              /\ UNCHANGED <<pc, err>>
    /\ UNCHANGED <<packConst, side>>

PackReturn ==
    /\ pc = "pack"
    /\ idx > Len(packed_paths(side))
    /\ pc' = "packed"
    /\ UNCHANGED <<packConst, fs, side, idx, err, log>>

NextPack ==
    \/ DownloadModsCall
    \/ DownloadModsIter
    \/ DownloadModsReturn
    \/ \E s \in Sides : PackCall(s)
    \/ PackIter
    \/ PackReturn

SpecPack == InitPack /\ [][NextPack]_vars

(***************************************************************************)
(* The assembler and the packaging functions side by side: every entry     *)
(* point that takes the optional progress callback.                        *)
(***************************************************************************)
InitTool == Init \/ InitPack

NextTool == Next \/ NextPack

SpecTool == InitTool /\ [][NextTool]_vars

(***************************************************************************)
(* AddRepoFrame.validate_callback.  The callback runs up to its dialog in  *)
(* one step; while the dialog is showing the event loop runs, so the       *)
(* callback can be entered again; closing the dialog ends the invocation.  *)
(***************************************************************************)
RepoNames == {"A", "B", "C", "D"}

\* the repositories of the organization, and the ones that have a release
GithubRepos == {"A", "B", "C"}

ReposWithRelease == {"A", "B"}

NameRank == [n \in RepoNames |-> CASE n = "A" -> 1 [] n = "B" -> 2 [] n = "C" -> 3 [] n = "D" -> 4]

\* get_repo: raises RepoNotFoundException for a repository that does not exist
get_repo_found(repo_name) == repo_name \in GithubRepos

\* new_mod_from_repo: raises LatestReleaseNotFound for a repository without release
has_latest_release(repo_name) == repo_name \in ReposWithRelease

new_mod_from_repo(repo_name) == [name |-> repo_name, side |-> "BOTH"]

has_github_mod(github_mods, name) == \E i \in DOMAIN github_mods : github_mods[i].name = name

RECURSIVE SortedInsert(_, _)
SortedInsert(mods, mod) ==
    IF mods = <<>> THEN <<mod>>
    ELSE IF NameRank[mod.name] < NameRank[Head(mods).name] THEN <<mod>> \o mods
    ELSE <<Head(mods)>> \o SortedInsert(Tail(mods), mod)

\* variant: the list is left in the order of the appends
sort_Skipped(mods) == mods

RECURSIVE sort(_)
\* list.sort() on the mods, ordered by name
sort(mods) == IF mods = <<>> THEN <<>> ELSE SortedInsert(sort(Tail(mods)), Head(mods))

\* variant: the mod is appended whether or not the repository has a release
validate_outcome_NoReleaseCheck(repo_name, github_mods) ==
    IF ~get_repo_found(repo_name) THEN "not_found"
    ELSE IF has_github_mod(github_mods, repo_name) THEN "already_added"
    ELSE "added"

\* the branch validate_callback takes once it is past its guard
validate_outcome(repo_name, github_mods) ==
    IF ~get_repo_found(repo_name) THEN "not_found"
    ELSE IF has_github_mod(github_mods, repo_name) THEN "already_added"
    ELSE IF ~has_latest_release(repo_name) THEN "no_release"
    ELSE "added"

SortedManifests ==
    { m \in UNION { [1..k -> { new_mod_from_repo(n) : n \in GithubRepos }] : k \in 0..MaxMods } :
        \A i, j \in DOMAIN m : i < j => NameRank[m[i].name] < NameRank[m[j].name] }

\* the assembler and the packaging functions are not running
ToolIdle ==
    /\ release = [version |-> "2.1.0", mods |-> <<>>, config |-> << <<"configA.cfg">> >>]
    /\ exclusions = [s \in Sides |-> {}]
    /\ cache = {}
    /\ fmt = "MMC"
    /\ progress_callback = "None"
    /\ fs = [d \in Destinations(release) |-> NoFile]
    /\ pc = "idle"
    /\ side = "CLIENT"
    /\ idx = 0
    /\ err = "None"
    /\ log = <<>>
    /\ client_paths = <<>>
    /\ server_paths = <<>>
    /\ prev = NoFile

InitRepo ==
    /\ ToolIdle
    /\ \E m \in SortedManifests :
          /\ gtnh_modpack = [github_mods |-> m, client_exclusions |-> <<>>,
                             server_exclusions |-> <<>>, modpack_version |-> "2.1.0"]
          /\ saved = m
    /\ is_messagebox_open = FALSE
    /\ invocation = NoCall
    /\ ret = NoCall
    /\ validate_err = "None"
    /\ LabelIdle
    /\ StartIdle
    /\ ExclIdle
    /\ SidesIdle

\* what the query of GitHub in get_repo can end with besides a repository or
\* RepoNotFoundException: an exception validate_callback has no handler for
QueryFailures == {"GithubException"}

\* validate_callback entered while is_messagebox_open is False: up to its
\* dialog, or up to the exception that leaves it
ValidateCall(repo_name, query) ==
    /\ invocation = NoCall
    /\ ~is_messagebox_open
    /\ is_messagebox_open' = TRUE
    /\ ret' = NoCall
    /\ IF query \in QueryFailures
       THEN /\ validate_err' = query
            /\ UNCHANGED <<gtnh_modpack, saved, invocation>>
       ELSE LET outcome == validate_outcome(repo_name, gtnh_modpack.github_mods)
                added == sort(Append(gtnh_modpack.github_mods, new_mod_from_repo(repo_name)))
            IN  /\ gtnh_modpack' = IF outcome = "added"
                                   THEN [gtnh_modpack EXCEPT !.github_mods = added]
                                   ELSE gtnh_modpack
                /\ saved' = IF outcome = "added" THEN added ELSE saved
                /\ invocation' = [repo_name |-> repo_name, repo_added |-> outcome = "added",
                                  mods_before |-> gtnh_modpack.github_mods,
                                  saved_before |-> saved, reentered |-> FALSE,
                                  queried |-> TRUE]
                /\ validate_err' = "None"
    /\ UNCHANGED <<toolVars, sidesVars, exclVars, labelVars, startVars>>

\* validate_callback entered while is_messagebox_open is True: the guard fails
ValidateCallReentered(repo_name) ==
    /\ is_messagebox_open
    /\ ret' = [repo_name |-> repo_name, repo_added |-> FALSE,
               mods_before |-> gtnh_modpack.github_mods,
               saved_before |-> saved, reentered |-> TRUE, queried |-> FALSE]
    /\ validate_err' = "None"
    /\ UNCHANGED <<toolVars, sidesVars, exclVars, labelVars, startVars, gtnh_modpack, saved, invocation,
                   is_messagebox_open>>

\* the dialog is closed: the guard is released and validate_callback returns
ValidateReturn ==
    /\ invocation # NoCall
    /\ is_messagebox_open' = FALSE
    /\ ret' = invocation
    /\ invocation' = NoCall
    /\ UNCHANGED <<toolVars, sidesVars, exclVars, labelVars, startVars, gtnh_modpack, saved, validate_err>>

NextRepo ==
    \/ \E repo_name \in RepoNames, query \in {"answered"} \cup QueryFailures :
          ValidateCall(repo_name, query)
    \/ \E repo_name \in RepoNames : ValidateCallReentered(repo_name)
    \/ ValidateReturn

SpecRepo == InitRepo /\ [][NextRepo]_vars

(***************************************************************************)
(* CustomLabelFrame: an editable listbox with an add and a remove button.  *)
(***************************************************************************)
MaxEntries == 3

Entries == {"a", "b"}

\* what a callback does when it is called
CallbackOutcomes == {"true", "false", "IndexError", "Exception"}

\* listbox.delete(index)
listbox_delete(entries, index) ==
    [i \in 1..(Len(entries) - 1) |-> IF i < index THEN entries[i] ELSE entries[i + 1]]

InitLabel ==
    /\ ToolIdle
    /\ gtnh_modpack = NoModpack
    /\ RepoIdle
    /\ listbox \in UNION { [1..k -> Entries] : k \in 0..1 }
    /\ selection = 0
    /\ add_callback \in {"None", "callable"}
    /\ delete_callback \in {"None", "callable"}
    /\ last_remove = NoCall
    /\ StartIdle
    /\ ExclIdle
    /\ SidesIdle

\* the user clicks an entry of the listbox
Select(index) ==
    /\ index \in DOMAIN listbox
    /\ selection' = index
    /\ last_remove' = NoCall
    /\ UNCHANGED <<toolVars, sidesVars, exclVars, gtnh_modpack, repoVars, startVars, listbox, add_callback, delete_callback>>

\* the add button
Add(entry, outcome) ==
    /\ Len(listbox) < MaxEntries
    /\ add_callback = "None" => outcome = "true"
    /\ listbox' = IF outcome = "true" THEN Append(listbox, entry) ELSE listbox
    /\ last_remove' = NoCall
    /\ UNCHANGED <<toolVars, sidesVars, exclVars, gtnh_modpack, repoVars, startVars, selection, add_callback, delete_callback>>

\* variant of Remove: the entry is deleted whatever the delete callback returns
Remove_IgnoresResult(outcome) ==
    /\ delete_callback = "None" => outcome = "true"
    /\ selection = 0 => outcome = "true"
    /\ IF selection = 0
       THEN /\ last_remove' = [had_selection |-> FALSE, index |-> 0, before |-> listbox,
                               invoked |-> FALSE, outcome |-> "None", escaped |-> "None"]
            /\ UNCHANGED <<listbox, selection>>
       ELSE /\ last_remove' = [had_selection |-> TRUE, index |-> selection, before |-> listbox,
                               invoked |-> delete_callback # "None",
                               outcome |-> IF delete_callback = "None" THEN "None" ELSE outcome,
                               escaped |-> IF outcome = "Exception" THEN "Exception" ELSE "None"]
            /\ listbox' = IF outcome \in {"true", "false"}
                          THEN listbox_delete(listbox, selection) ELSE listbox
            /\ selection' = IF outcome \in {"true", "false"} THEN 0 ELSE selection
    /\ UNCHANGED <<toolVars, sidesVars, exclVars, gtnh_modpack, repoVars, startVars, add_callback, delete_callback>>

\* the remove button
Remove(outcome) ==
    /\ delete_callback = "None" => outcome = "true"
    /\ selection = 0 => outcome = "true"
    /\ IF selection = 0
       THEN \* curselection()[0] raises IndexError, which is caught
            /\ last_remove' = [had_selection |-> FALSE, index |-> 0, before |-> listbox,
                               invoked |-> FALSE, outcome |-> "None", escaped |-> "None"]
            /\ UNCHANGED <<listbox, selection>>
       ELSE /\ last_remove' = [had_selection |-> TRUE, index |-> selection, before |-> listbox,
                               invoked |-> delete_callback # "None",
                               outcome |-> IF delete_callback = "None" THEN "None" ELSE outcome,
                               escaped |-> IF outcome = "Exception" THEN "Exception" ELSE "None"]
            /\ listbox' = IF outcome = "true" THEN listbox_delete(listbox, selection) ELSE listbox
            /\ selection' = IF outcome = "true" THEN 0 ELSE selection
    /\ UNCHANGED <<toolVars, sidesVars, exclVars, gtnh_modpack, repoVars, startVars, add_callback, delete_callback>>

NextLabel ==
    \/ \E index \in 1..MaxEntries : Select(index)
    \/ \E entry \in Entries, outcome \in CallbackOutcomes : Add(entry, outcome)
    \/ \E outcome \in CallbackOutcomes : Remove(outcome)

SpecLabel == InitLabel /\ [][NextLabel]_vars

(***************************************************************************)
(* ArchiveFrame.start: eight stages, each announced on the global progress *)
(* bar before it runs.  Progress values are held in hundredths of a        *)
(* percent, the precision _progress_callback rounds to.                    *)
(***************************************************************************)
MaxRuns == 2

StageNames ==
    <<"download_mods", "move_mods", "handle_pack_extra_files", "pack_clientpack",
      "pack_serverpack", "pack_technic", "make_deploader_json", "pack_curse">>

NumStages == Len(StageNames)

\* delta_progress_global = 100 / 8, as a fraction of a percent
delta_progress_global == [num |-> 100, den |-> NumStages]

\* float(format(value, ".2f")): value, given in hundredths as num / den, rounded
format_2f(num, den) == (2 * num + den) \div (2 * den)

\* variant: the value is rounded but not capped
progress_callback_value_Uncapped(value, delta) ==
    format_2f(value * delta.den + 100 * delta.num, delta.den)

\* _progress_callback: the new value of a bar that shows value
progress_callback_value(value, delta) ==
    LET sum == format_2f(value * delta.den + 100 * delta.num, delta.den)
    IN  IF sum > 10000 THEN 10000 ELSE sum

\* bound on the number of files crawl finds in an archive folder
MaxFiles == 3

\* the stages that report each file on the task bar
TaskStages == {"download_mods", "pack_clientpack", "pack_serverpack"}

\* how a stage can end
StageOutcomes(k) ==
    IF StageNames[k] \in TaskStages
    THEN IF task.n = 0 THEN {"ZeroDivisionError"}
         ELSE IF task.i = task.n THEN {"returned"} ELSE {}
    ELSE {"returned"}
           \cup (IF StageNames[k] = "handle_pack_extra_files"
                 THEN {"PackingInterruptException"} ELSE {})

InitStart ==
    /\ ToolIdle
    /\ \E m \in SortedManifests :
          gtnh_modpack = [github_mods |-> m, client_exclusions |-> <<>>,
                          server_exclusions |-> <<>>, modpack_version |-> "2.1.0"]
    /\ RepoIdle
    /\ LabelIdle
    /\ StartIdle
    /\ ExclIdle
    /\ SidesIdle

\* the start button is pressed
StartPressed ==
    /\ start_pc = "idle"
    /\ runs < MaxRuns
    /\ runs' = runs + 1
    /\ start_pc' = "ready"
    /\ stage' = 1
    /\ stage_log' = <<>>
    /\ start_err' = "None"
    /\ caught' = "None"
    /\ UNCHANGED <<toolVars, sidesVars, exclVars, gtnh_modpack, repoVars, labelVars, progress_bar_global,
                   progress_bar, task>>

\* the global bar is advanced, then the stage is called on n files
StageStart(n) ==
    /\ start_pc = "ready"
    /\ n = IF StageNames[stage] = "download_mods" THEN Len(gtnh_modpack.github_mods)
           ELSE IF StageNames[stage] \in TaskStages THEN n
           ELSE 0
    /\ progress_bar_global' = progress_callback_value(progress_bar_global, delta_progress_global)
    /\ stage_log' = Append(stage_log, [name |-> StageNames[stage],
                                       progress |-> progress_bar_global'])
    /\ task' = [n |-> n, i |-> 0]
    /\ start_pc' = "running"
    /\ UNCHANGED <<toolVars, sidesVars, exclVars, gtnh_modpack, repoVars, labelVars, stage, start_err, caught,
                   progress_bar, runs>>

\* download_mods / pack_clientpack / pack_serverpack announce the next file
TaskCallback ==
    /\ start_pc = "running"
    /\ task.i < task.n
    /\ progress_bar' = progress_callback_value(progress_bar, [num |-> 100, den |-> task.n])
    /\ task' = [task EXCEPT !.i = @ + 1]
    /\ UNCHANGED <<toolVars, sidesVars, exclVars, gtnh_modpack, repoVars, labelVars, start_pc, stage,
                   progress_bar_global, stage_log, start_err, caught, runs>>

\* variant of StageEnd: the handler sits around the stage, not around the run
StageEnd_ResumesAfterInterrupt(outcome) ==
    /\ start_pc = "running"
    /\ outcome \in StageOutcomes(stage)
    /\ IF outcome \in {"returned", "PackingInterruptException"} /\ stage < NumStages
       THEN /\ start_pc' = "ready"
            /\ stage' = stage + 1
            /\ caught' = IF outcome = "PackingInterruptException" THEN outcome ELSE caught
            /\ UNCHANGED start_err
       ELSE /\ start_pc' = "idle"
            /\ stage' = 0
            /\ caught' = IF outcome = "PackingInterruptException" THEN outcome ELSE caught
            /\ start_err' = IF outcome \in {"returned", "PackingInterruptException"}
                            THEN "None" ELSE outcome
    /\ UNCHANGED <<toolVars, sidesVars, exclVars, gtnh_modpack, repoVars, labelVars, progress_bar_global,
                   stage_log, progress_bar, task, runs>>

\* the stage returns or raises
StageEnd(outcome) ==
    /\ start_pc = "running"
    /\ outcome \in StageOutcomes(stage)
    /\ IF outcome = "returned" /\ stage < NumStages
       THEN /\ start_pc' = "ready"
            /\ stage' = stage + 1
            /\ UNCHANGED <<start_err, caught>>
       ELSE /\ start_pc' = "idle"
            /\ stage' = 0
            /\ caught' = IF outcome = "PackingInterruptException" THEN outcome ELSE "None"
            /\ start_err' = IF outcome \in {"returned", "PackingInterruptException"}
                            THEN "None" ELSE outcome
    /\ UNCHANGED <<toolVars, sidesVars, exclVars, gtnh_modpack, repoVars, labelVars, progress_bar_global,
                   stage_log, progress_bar, task, runs>>

NextStart ==
    \/ StartPressed
    \/ \E n \in 0..MaxFiles : StageStart(n)
    \/ TaskCallback
    \/ \E outcome \in {"returned", "PackingInterruptException", "ZeroDivisionError"} :
          StageEnd(outcome)

SpecStart == InitStart /\ [][NextStart]_vars

(***************************************************************************)
(* HandleFileExclusionFrame: one CustomLabelFrame per side, whose add and  *)
(* delete callbacks save the exclusion list of that side in the manifest.  *)
(***************************************************************************)
ExclusionEntries == {"", "a", "b"}

\* the most entries a listbox of the editor holds
MaxExclusions == 2

EntryRank == [e \in ExclusionEntries |-> CASE e = "" -> 0 [] e = "a" -> 1 [] e = "b" -> 2]

RECURSIVE InsertEntry(_, _)
InsertEntry(entries, e) ==
    IF entries = <<>> THEN <<e>>
    ELSE IF EntryRank[e] < EntryRank[Head(entries)] THEN <<e>> \o entries
    ELSE <<Head(entries)>> \o InsertEntry(Tail(entries), e)

RECURSIVE sorted(_)
\* sorted(exclusions) on a list of strings
sorted(entries) ==
    IF entries = <<>> THEN <<>> ELSE InsertEntry(sorted(Tail(entries)), Head(entries))

\* the exclusion list of a side in the manifest
manifest_exclusions(modpack, mode) ==
    IF mode = "client" THEN modpack.client_exclusions ELSE modpack.server_exclusions

\* save(entry, mode): the list that is put in the manifest, from the content
\* the listbox has when the callback runs
save_exclusions(entry, content) ==
    sorted(IF entry = "" THEN Append(content, entry) ELSE content)

\* save(entry, mode): the manifest after the assignment
save(modpack, entry, mode) ==
    IF mode = "client"
    THEN [modpack EXCEPT !.client_exclusions = save_exclusions(entry, excl_listbox["client"])]
    ELSE [modpack EXCEPT !.server_exclusions = save_exclusions(entry, excl_listbox["server"])]

SortedExclusions == UNION { [1..k -> ExclusionEntries \ {""}] : k \in 0..1 }

InitExcl ==
    /\ ToolIdle
    /\ RepoIdle
    /\ LabelIdle
    /\ StartIdle
    /\ SidesIdle
    /\ \E c \in SortedExclusions, sv \in SortedExclusions :
          /\ gtnh_modpack = [github_mods |-> <<>>, client_exclusions |-> c,
                             server_exclusions |-> sv, modpack_version |-> "2.1.0"]
          /\ excl_listbox = [m \in Modes |-> IF m = "client" THEN sorted(c) ELSE sorted(sv)]
          /\ saved_exclusions = [m \in Modes |-> IF m = "client" THEN c ELSE sv]
    /\ excl_selection = [m \in Modes |-> 0]
    /\ last_edit = NoCall

\* the user clicks an entry of the listbox of a side
ExclSelect(mode, index) ==
    /\ index \in DOMAIN excl_listbox[mode]
    /\ excl_selection' = [excl_selection EXCEPT ![mode] = index]
    /\ last_edit' = NoCall
    /\ UNCHANGED <<toolVars, sidesVars, gtnh_modpack, repoVars, labelVars, startVars, excl_listbox,
                   saved_exclusions>>

\* the add button of a side: add_client / add_server save, then the entry
\* is inserted in the listbox because the callback returned True
ExclAdd(mode, entry) ==
    /\ Len(excl_listbox[mode]) < MaxExclusions
    /\ gtnh_modpack' = save(gtnh_modpack, entry, mode)
    /\ saved_exclusions' = [m \in Modes |-> manifest_exclusions(gtnh_modpack', m)]
    /\ excl_listbox' = [excl_listbox EXCEPT ![mode] = Append(@, entry)]
    /\ last_edit' = [op |-> "add", mode |-> mode, entry |-> entry,
                     manifest_before |-> gtnh_modpack]
    /\ UNCHANGED <<toolVars, sidesVars, repoVars, labelVars, startVars, excl_selection>>

\* the remove button of a side: nothing without a selection; otherwise
\* del_client / del_server save, then the selected entry is deleted
ExclRemove(mode) ==
    /\ IF excl_selection[mode] = 0
       THEN /\ last_edit' = NoCall
            /\ UNCHANGED <<gtnh_modpack, saved_exclusions, excl_listbox, excl_selection>>
       ELSE /\ gtnh_modpack' = save(gtnh_modpack, "", mode)
            /\ saved_exclusions' = [m \in Modes |-> manifest_exclusions(gtnh_modpack', m)]
            /\ excl_listbox' = [excl_listbox EXCEPT
                                   ![mode] = listbox_delete(@, excl_selection[mode])]
            /\ excl_selection' = [excl_selection EXCEPT ![mode] = 0]
            /\ last_edit' = [op |-> "remove", mode |-> mode,
                             entry |-> excl_listbox[mode][excl_selection[mode]],
                             manifest_before |-> gtnh_modpack]
    /\ UNCHANGED <<toolVars, sidesVars, repoVars, labelVars, startVars>>

NextExcl ==
    \/ \E mode \in Modes, index \in 1..MaxExclusions : ExclSelect(mode, index)
    \/ \E mode \in Modes, entry \in ExclusionEntries : ExclAdd(mode, entry)
    \/ \E mode \in Modes : ExclRemove(mode)

SpecExcl == InitExcl /\ [][NextExcl]_vars

(***************************************************************************)
(* Two runs over manifests that differ in the exclusions of one side:      *)
(* a second assembler built for such a release, and handle_pack_extra_files *)
(* called again after the manifest on disk changed.                        *)
(***************************************************************************)
OtherSide(s) == IF s = "CLIENT" THEN "SERVER" ELSE "CLIENT"

\* the entries of an archive, as a set
EntrySet(archive) == { archive.entries[i] : i \in DOMAIN archive.entries }

\* an assembler is built for a release that differs from the one of the
\* completed run in the exclusions of the other side only
NewAssembler(excluded) ==
    /\ pc = "done"
    /\ excluded # exclusions[OtherSide(side)]
    /\ exclusions' = [exclusions EXCEPT ![OtherSide(side)] = excluded]
    /\ baseline' = [side |-> side, entries |-> EntrySet(fs[dest])]
    /\ pc' = "idle"
    /\ UNCHANGED <<release, cache, fmt, progress_callback, fs, side, idx, err, log, prev,
                   gtnh_modpack, client_paths, server_paths, repoVars, labelVars, startVars,
                   exclVars, gtnh_archive, extra_files>>

temp_dir == <<"cache", "/", "temp">>

PackArchivePool == { <<"configA.cfg">>, <<"sub", "/">>, <<"sub", "/", "b.cfg">> }

ManifestExclusionPool == { <<"sub", "/", "b.cfg">>, <<"sub">>, <<"configA.cfg", "/">> }

ManifestExclusionLists == UNION { [1..k -> ManifestExclusionPool] : k \in 0..1 }

\* crawl(temp_dir) after extractall: the files, not the folders, below the root
crawl(root, names) == { PathJoin(root, n) : n \in { m \in names : ~EndsWithSep(m) } }

\* [temp_dir / exclusion for exclusion in ...], as a set
excluded_paths(exclusion_list) ==
    { PathJoin(temp_dir, exclusion_list[i]) : i \in DOMAIN exclusion_list }

\* client_files, server_files: availiable_files - set(exclusions of the side)
selected_files(modpack, names, s) ==
    crawl(temp_dir, names) \ excluded_paths(IF s = "CLIENT" THEN modpack.client_exclusions
                                             ELSE modpack.server_exclusions)

InitExtra ==
    /\ ToolIdle
    /\ RepoIdle
    /\ LabelIdle
    /\ StartIdle
    /\ ExclIdle
    /\ gtnh_modpack \in { [github_mods |-> <<>>, client_exclusions |-> c,
                           server_exclusions |-> sv, modpack_version |-> "2.1.0"] :
                            c \in ManifestExclusionLists, sv \in ManifestExclusionLists }
    /\ gtnh_archive \in (SUBSET PackArchivePool) \ {{}}
    /\ extra_files = NoCall
    /\ baseline = NoCall

\* handle_pack_extra_files(): without a release of the pack it raises before
\* it selects anything; otherwise the manifest is loaded and the files of
\* both sides are selected
HandlePackExtraFiles(found) ==
    /\ gtnh_modpack # NoModpack
    /\ extra_files' = IF found
                      THEN [s \in Sides |-> selected_files(gtnh_modpack, gtnh_archive, s)]
                      ELSE NoCall
    /\ UNCHANGED <<toolVars, gtnh_modpack, repoVars, labelVars, startVars, exclVars,
                   baseline, gtnh_archive>>

\* the manifest that the next call loads differs from the one of the last
\* call in the exclusions of the other side of s only
ManifestEdited(s, exclusion_list) ==
    /\ gtnh_modpack # NoModpack
    /\ extra_files # NoCall
    /\ gtnh_modpack' = IF s = "CLIENT"
                       THEN [gtnh_modpack EXCEPT !.server_exclusions = exclusion_list]
                       ELSE [gtnh_modpack EXCEPT !.client_exclusions = exclusion_list]
    /\ gtnh_modpack' # gtnh_modpack
    /\ baseline' = [side |-> s, entries |-> extra_files[s]]
    /\ extra_files' = NoCall
    /\ UNCHANGED <<toolVars, repoVars, labelVars, startVars, exclVars, gtnh_archive>>

\* the assembler with every artifact in the cache and no callback, or the
\* packaging function of gui.py
InitSides ==
    \/ /\ Init
       /\ release.version = "2.1.0"
       /\ cache = {m.name : m \in ModPool} \cup {CONFIG_ARTIFACT}
       /\ progress_callback = "None"
    \/ InitExtra

NextSides ==
    \/ Next
    \/ \E excluded \in SUBSET ExclusionPool : NewAssembler(excluded)
    \/ \E found \in BOOLEAN : HandlePackExtraFiles(found)
    \/ \E s \in Sides, exclusion_list \in ManifestExclusionLists : ManifestEdited(s, exclusion_list)

SpecSides == InitSides /\ [][NextSides]_vars

TypeOK ==
    /\ pc \in {"idle", "add_mods", "add_config", "config_items", "add_mmc_meta_data", "done",
               "raised", "download_mods", "download_mods_returned", "pack", "packed"}
    /\ side \in Sides
    /\ err \in {"None", "ValueError", "FileNotFoundError", "CallbackError", "ZeroDivisionError",
               "TypeError"}

(***************************************************************************)
(* Properties.                                                             *)
(***************************************************************************)

\* C1: the launcher-format assemble called with a side other than CLIENT
\* raises ValueError at once: the destination is neither created nor
\* modified, no progress callback is invoked and nothing else happens.
C1_InvalidSideRejected ==
    [][ (fmt = "MMC" /\ pc \in {"idle", "done", "raised"} /\ side' # "CLIENT")
            => (pc' = "raised" /\ err' = "ValueError" /\ fs' = fs /\ log' = <<>>) ]_vars

C1_Witness ==
    /\ fmt = "MMC" /\ side = "SERVER"
    /\ pc = "raised" /\ err = "ValueError"
    /\ fs[dest].exists /\ Len(fs[dest].entries) > 1

\* C2: after a completed assemble(S) the config entries of the archive, with
\* the config root of the format stripped, are exactly the entries of the
\* config bundle that are not in the exclusion set of S (string equality).
C2_ConfigEntriesAreTheNonExcluded ==
    pc = "done" =>
        LET archive == fs[dest].entries
            root == IF fmt = "MMC"
                    THEN <<"GT New Horizons " \o release.version, "/", ".minecraft", "/">>
                    ELSE <<>>
            written == { archive[i] : i \in { j \in DOMAIN archive : archive[j].by = "add_config" } }
        IN  /\ \A e \in written : StartsWith(e.name, root)
            /\ { SubSeq(e.name, Len(root) + 1, Len(e.name)) : e \in written }
                 = { release.config[i] : i \in DOMAIN release.config } \ exclusions[side]

C2_Witness ==
    /\ pc = "done"
    /\ <<"sub">> \in exclusions[side]
    /\ \E i \in DOMAIN release.config : release.config[i] = <<"sub", "/">>
    /\ \E i \in DOMAIN release.config : release.config[i] \in exclusions[side]

\* C3: after a completed assemble(S) the archive has exactly one mod entry per
\* mod of the release whose side is S or BOTH, named by the file name of the
\* artifact directly below the mod directory of the format.
C3_ModEntriesAreTheIncludedMods ==
    pc = "done" =>
        LET archive == fs[dest].entries
            modDir == IF fmt = "MMC"
                      THEN <<"GT New Horizons " \o release.version, "/", ".minecraft", "/",
                             "mods", "/">>
                      ELSE <<"mods", "/">>
            written == { i \in DOMAIN archive : archive[i].by = "add_mods" }
            included == { i \in DOMAIN release.mods :
                            release.mods[i].side = side \/ release.mods[i].side = "BOTH" }
        IN  /\ Cardinality(written) = Cardinality(included)
            /\ { archive[i].name : i \in written }
                 = { modDir \o <<release.mods[i].filename>> : i \in included }
            /\ \A i \in DOMAIN archive : StartsWith(archive[i].name, modDir) => i \in written

C3_Witness ==
    /\ pc = "done"
    /\ \E i \in DOMAIN release.mods : release.mods[i].side = side
    /\ \E i \in DOMAIN release.mods : release.mods[i].side \notin {side, "BOTH"}

\* C4: when download_mods has returned, a BOTH mod is in the client and in the
\* server paths, a CLIENT mod only in the client paths, a SERVER mod only in
\* the server paths, and every mod of the manifest is in at least one of them.
C4_SidesPartitionTheMods ==
    pc = "download_mods_returned" =>
        \A i \in DOMAIN gtnh_modpack.github_mods :
            LET mod == gtnh_modpack.github_mods[i]
                path == <<"cache", "/", mod.name \o ".jar">>
                inClient == \E k \in DOMAIN client_paths : client_paths[k] = path
                inServer == \E k \in DOMAIN server_paths : server_paths[k] = path
            IN  /\ mod.side = "BOTH" => inClient /\ inServer
                /\ mod.side = "CLIENT" => inClient /\ ~inServer
                /\ mod.side = "SERVER" => inServer /\ ~inClient
                /\ inClient \/ inServer

C4_Witness ==
    /\ pc = "download_mods_returned"
    /\ \E i \in DOMAIN gtnh_modpack.github_mods : gtnh_modpack.github_mods[i].side = "BOTH"
    /\ \E i \in DOMAIN gtnh_modpack.github_mods : gtnh_modpack.github_mods[i].side = "SERVER"

\* C5: a progress callback that raises aborts assemble: the exception leaves
\* the call, the raising invocation and everything after it write nothing, no
\* metadata entry is appended, and the archive written so far stays at the
\* destination.
C5_CallbackRaiseAborts ==
    /\ [](err = "CallbackError" =>
            /\ pc = "raised"
            /\ fs[dest].exists
            /\ Len(fs[dest].entries) = Len(log) - 1
            /\ \A i \in DOMAIN fs[dest].entries : fs[dest].entries[i].by = "add_mods")
    /\ [][ /\ (Len(log') > Len(log) /\ log'[Len(log')].raised)
                => (pc' = "raised" /\ err' = "CallbackError" /\ fs' = fs)
           /\ (pc = "raised" /\ err = "CallbackError")
                => (fs' = fs \/ (pc' = "add_mods" /\ log' = <<>>)) ]_vars

C5_Witness ==
    /\ pc = "raised" /\ err = "CallbackError"
    /\ Len(fs[dest].entries) >= 1

\* C6: when a mod or the config bundle that assemble(S) needs is not in the
\* cache, the call never completes: it ends with the not-found error, only
\* the mods before the first missing artifact are in the archive, and the
\* archive written so far stays at the destination.
C6_MissingArtifactFailsAssemble ==
    (pc # "idle" /\ ~(fmt = "MMC" /\ side # "CLIENT")) =>
        LET mods == SelectSeq(release.mods,
                              LAMBDA m : m.side = side \/ m.side = "BOTH")
            missing == { i \in DOMAIN mods : mods[i].name \notin cache }
            before == IF missing = {} THEN Len(mods)
                      ELSE (CHOOSE i \in missing : \A j \in missing : i <= j) - 1
            entries == fs[dest].entries
        IN  /\ (missing # {} \/ CONFIG_ARTIFACT \notin cache) =>
                /\ pc \notin {"config_items", "add_mmc_meta_data", "done"}
                /\ Len(entries) <= before
                /\ \A i \in DOMAIN entries :
                      entries[i].by = "add_mods" /\ entries[i].data[5] = mods[i].name
            /\ err = "FileNotFoundError" =>
                /\ pc = "raised"
                /\ missing # {} \/ CONFIG_ARTIFACT \notin cache
                /\ fs[dest].exists
                /\ Len(entries) = before

C6_Witness ==
    /\ pc = "raised" /\ err = "FileNotFoundError"
    /\ Len(fs[dest].entries) >= 1

\* C7: the launcher format writes its metadata entry once, after the base
\* assemble has returned with every mod and config entry written: the entry
\* is appended at <archive-root>/mmc-pack.json with the constant payload, the
\* entries before it are unchanged, and an assemble that aborts has none.
C7_MetaDataAppendedLast ==
    /\ [](fmt = "MMC" =>
            LET entries == fs[MMC_get_archive_path(release, "CLIENT")].entries
                metas == { i \in DOMAIN entries : entries[i].by = "add_mmc_meta_data" }
                mods == { i \in DOMAIN release.mods : release.mods[i].side \in {"CLIENT", "BOTH"} }
                items == { i \in DOMAIN release.config :
                              release.config[i] \notin exclusions["CLIENT"] }
            IN  /\ pc = "done" =>
                    /\ metas = {Len(entries)}
                    /\ Len(entries) = Cardinality(mods) + Cardinality(items) + 1
                    /\ entries[Len(entries)].name
                         = <<"GT New Horizons " \o release.version, "/", "mmc-pack.json">>
                    /\ entries[Len(entries)].data = MMC_PACK_JSON
                /\ (pc \in {"add_mods", "add_config", "config_items", "add_mmc_meta_data"}
                      \/ (pc = "raised" /\ err # "ValueError")) => metas = {})
    /\ [][ (fmt = "MMC" /\ pc = "add_mmc_meta_data" /\ pc' # pc) =>
              LET path == MMC_get_archive_path(release, "CLIENT")
              IN  /\ Len(fs'[path].entries) = Len(fs[path].entries) + 1
                  /\ SubSeq(fs'[path].entries, 1, Len(fs[path].entries)) = fs[path].entries ]_vars

C7_Witness ==
    /\ fmt = "MMC" /\ pc = "done"
    /\ \E i \in DOMAIN fs[dest].entries : fs[dest].entries[i].by = "add_mods"
    /\ \E i \in DOMAIN fs[dest].entries : fs[dest].entries[i].by = "add_config"

\* C8: in the launcher format a mod entry is named
\* <archive-root>/.minecraft/mods/<file name of the artifact>, a config entry
\* <archive-root>/.minecraft/<name in the bundle>, with <archive-root> made of
\* the release version only; only the metadata entry is outside .minecraft/.
C8_LauncherLayout ==
    fmt = "MMC" =>
        LET entries == fs[MMC_get_archive_path(release, "CLIENT")].entries
            files == <<"GT New Horizons " \o release.version, "/", ".minecraft", "/">>
        IN  \A i \in DOMAIN entries :
                LET e == entries[i]
                IN  /\ e.by = "add_mods" =>
                          /\ e.name = files \o <<"mods", "/", e.data[Len(e.data)]>>
                          /\ \E k \in DOMAIN release.mods :
                                release.mods[k].filename = e.data[Len(e.data)]
                    /\ e.by = "add_config" =>
                          /\ e.name = files \o e.data
                          /\ \E k \in DOMAIN release.config : release.config[k] = e.data
                    /\ e.by # "add_mmc_meta_data" => StartsWith(e.name, files)

C8_Witness ==
    /\ fmt = "MMC" /\ pc = "config_items" /\ release.version = "2.2.0"
    /\ \E i \in DOMAIN fs[dest].entries : fs[dest].entries[i].by = "add_mods"
    /\ \E i \in DOMAIN fs[dest].entries : fs[dest].entries[i].by = "add_config"

\* C9: a directory entry of the config bundle (name ending in "/") that is not
\* excluded is written under a name that still ends in "/"; no config entry
\* has its trailing separator added, dropped or altered.
C9_DirectoryEntriesKept ==
    fmt = "MMC" =>
        LET entries == fs[MMC_get_archive_path(release, "CLIENT")].entries
        IN  /\ \A i \in DOMAIN entries :
                  entries[i].by = "add_config" =>
                      /\ EndsWithSep(entries[i].name) <=> EndsWithSep(entries[i].data)
                      /\ SubSeq(entries[i].name,
                                Len(entries[i].name) - Len(entries[i].data) + 1,
                                Len(entries[i].name)) = entries[i].data
            /\ pc = "done" =>
                  \A k \in DOMAIN release.config :
                      (EndsWithSep(release.config[k])
                         /\ release.config[k] \notin exclusions["CLIENT"]) =>
                          \E i \in DOMAIN entries :
                              /\ entries[i].data = release.config[k]
                              /\ EndsWithSep(entries[i].name)

C9_Witness ==
    /\ fmt = "MMC" /\ pc = "done"
    /\ \E i \in DOMAIN fs[dest].entries :
          fs[dest].entries[i].by = "add_config" /\ EndsWithSep(fs[dest].entries[i].name)

\* C10: within one assemble the mod entries come in manifest order, every mod
\* entry comes before every config entry, and the config entries come in the
\* order of the config archive.
C10_EntriesInSourceOrder ==
    (pc # "idle" /\ ~(fmt = "MMC" /\ side # "CLIENT")) =>
        LET entries == fs[dest].entries
            modAt(e) == CHOOSE k \in DOMAIN release.mods :
                            release.mods[k].filename = e.name[Len(e.name)]
            itemAt(e) == CHOOSE k \in DOMAIN release.config : release.config[k] = e.data
        IN  \A i, j \in DOMAIN entries :
                i < j =>
                    /\ entries[j].by = "add_mods" => entries[i].by = "add_mods"
                    /\ (entries[i].by = "add_mods" /\ entries[j].by = "add_mods")
                          => modAt(entries[i]) < modAt(entries[j])
                    /\ (entries[i].by = "add_config" /\ entries[j].by = "add_config")
                          => itemAt(entries[i]) < itemAt(entries[j])

C10_Witness ==
    /\ pc = "done"
    /\ Cardinality({ i \in DOMAIN fs[dest].entries : fs[dest].entries[i].by = "add_mods" }) >= 2
    /\ Cardinality({ i \in DOMAIN fs[dest].entries : fs[dest].entries[i].by = "add_config" }) >= 2

\* C11: in a complete assemble the progress callback is invoked once for each
\* included mod and once for the config step, whatever the number of entries
\* of the config bundle and of excluded entries.
C11_OneCallbackPerModAndOneForConfig ==
    (pc \in {"add_mmc_meta_data", "done"} /\ progress_callback # "None") =>
        LET included == { i \in DOMAIN release.mods :
                            release.mods[i].side = side \/ release.mods[i].side = "BOTH" }
        IN  /\ Len(log) = Cardinality(included) + 1
            /\ \A i \in included :
                  Cardinality({ k \in DOMAIN log :
                      log[k].file = get_asset_version_cache_location(release.mods[i]) }) = 1
            /\ Cardinality({ k \in DOMAIN log :
                  log[k].file = get_config_cache_location(release) }) = 1

C11_Witness ==
    /\ pc = "done" /\ progress_callback # "None"
    /\ Len(log) = 2
    /\ Len(release.config) = 2
    /\ \E i \in DOMAIN release.config : release.config[i] \in exclusions[side]

C13_AssembleIsIdempotent ==
    (pc = "done" /\ prev.exists) =>
        /\ fs[dest] = prev
        /\ fmt = "MMC" =>
              Cardinality({ i \in DOMAIN fs[dest].entries :
                              fs[dest].entries[i].by = "add_mmc_meta_data" }) = 1

C13_Witness ==
    /\ pc = "done" /\ prev.exists /\ fmt = "MMC"
    /\ Len(fs[dest].entries) = 4

\* C14: assemble(S) with no mod selected for S completes and leaves an archive
\* of configs only: no mod entry, exactly the non-excluded config entries
\* (and the metadata entry for the launcher format), with the callback
\* invoked exactly once; the empty mod list raises nothing by itself.
C14_EmptyModListGivesConfigsOnly ==
    get_mods(release, side) = <<>> =>
        /\ pc = "raised" =>
              \/ fmt = "MMC" /\ side # "CLIENT" /\ err = "ValueError"
              \/ ~Resolves(CONFIG_ARTIFACT) /\ err = "FileNotFoundError"
              \/ progress_callback # "None" /\ err = "CallbackError"
        /\ pc = "done" =>
              LET archive == fs[dest].entries
                  kept == SelectSeq(release.config, LAMBDA item : item \notin exclusions[side])
              IN  /\ \A i \in DOMAIN archive : archive[i].by # "add_mods"
                  /\ Len(archive) = Len(kept) + (IF fmt = "MMC" THEN 1 ELSE 0)
                  /\ \A i \in DOMAIN kept :
                        /\ archive[i].by = "add_config"
                        /\ archive[i].name = config_archive_path(fmt, release, kept[i])
                  /\ fmt = "MMC" => archive[Len(archive)].by = "add_mmc_meta_data"
                  /\ progress_callback # "None" => Len(log) = 1

C14_Witness ==
    /\ pc = "done" /\ get_mods(release, side) = <<>>
    /\ Len(release.mods) > 0
    /\ progress_callback # "None"
    /\ Len(fs[dest].entries) = 2 /\ fmt = "MMC"

\* C15: the plain variant writes to <output dir>/GTNewHorizons-<side>-<version>.zip,
\* so CLIENT and SERVER have different destinations and no step of an
\* assemble for one side touches the archive of the other side; the launcher
\* destination depends on the version only, not on the side.
C15_OneDestinationPerSide ==
    /\ [](/\ fmt = "MODRINTH" =>
                dest = RELEASE_MODRINTH_DIR
                         \o <<"/", "GTNewHorizons-" \o side \o "-" \o release.version \o ".zip">>
          /\ get_archive_path("MODRINTH", release, "CLIENT")
                # get_archive_path("MODRINTH", release, "SERVER")
          /\ get_archive_path("MMC", release, "CLIENT")
                = get_archive_path("MMC", release, "SERVER")
          /\ \A v \in Versions :
                get_archive_path("MMC", release, "CLIENT")
                    = get_archive_path("MMC", [release EXCEPT !.version = v], "CLIENT")
                <=> v = release.version)
    /\ [][ fmt = "MODRINTH" =>
             \A other \in Sides \ {side'} :
                fs'[get_archive_path(fmt, release, other)]
                    = fs[get_archive_path(fmt, release, other)] ]_vars

C15_Witness ==
    /\ fmt = "MODRINTH" /\ pc = "done"
    /\ fs[get_archive_path(fmt, release, "CLIENT")].exists
    /\ fs[get_archive_path(fmt, release, "SERVER")].exists
    /\ Len(fs[get_archive_path(fmt, release, "CLIENT")].entries) = 3
    /\ Len(fs[get_archive_path(fmt, release, "SERVER")].entries) = 2

\* C17: the launcher variant keeps the core algorithm: its CLIENT archive
\* without the metadata entry and with the launcher prefixes stripped, and the
\* plain CLIENT archive with its mod directory stripped, both list the
\* included mod file names and then the kept config entry names, in the same
\* order.
C17_LauncherMatchesPlain ==
    (pc = "done" /\ side = "CLIENT") =>
        LET files == <<"GT New Horizons " \o release.version, "/", ".minecraft", "/">>
            modsRoot == IF fmt = "MMC" THEN files \o <<"mods", "/">> ELSE <<"mods", "/">>
            configRoot == IF fmt = "MMC" THEN files ELSE <<>>
            payload == SelectSeq(fs[dest].entries, LAMBDA e : e.by # "add_mmc_meta_data")
            Strip(e) == LET root == IF e.by = "add_mods" THEN modsRoot ELSE configRoot
                        IN  IF StartsWith(e.name, root)
                            THEN SubSeq(e.name, Len(root) + 1, Len(e.name))
                            ELSE <<"?">> \o e.name
            selected == SelectSeq(release.mods,
                                  LAMBDA mod : mod.side = "CLIENT" \/ mod.side = "BOTH")
            kept == SelectSeq(release.config, LAMBDA item : item \notin exclusions["CLIENT"])
        IN  [i \in DOMAIN payload |-> Strip(payload[i])]
                = [i \in DOMAIN selected |-> <<selected[i].filename>>] \o kept

C17_Witness ==
    /\ pc = "done" /\ side = "CLIENT" /\ fmt = "MMC"
    /\ Len(fs[dest].entries) = 5
    /\ Len(get_mods(release, side)) = 2
    /\ exclusions["CLIENT"] = {<<"sub">>}
    /\ release.config = << <<"sub", "/">>, <<"sub", "/", "b.cfg">> >>

\* C16: the progress callback is optional.  Without one, assemble,
\* download_mods, pack_clientpack and pack_serverpack never call it and fail
\* only where a run with a callback fails too (wrong side, missing artifact,
\* empty list); what a completed run leaves (archive entries and their order,
\* path lists) depends on its inputs only, so it is the same with no callback
\* and with a callback that never raises.
C16_CallbackIsOptional ==
    /\ progress_callback = "None" =>
          /\ log = <<>>
          /\ pc = "raised" =>
                \/ err = "ValueError" /\ fmt = "MMC" /\ side # "CLIENT"
                \/ err = "FileNotFoundError"
                     /\ \E a \in {CONFIG_ARTIFACT} \cup { release.mods[i].name : i \in DOMAIN release.mods } :
                           a \notin cache
                \/ err = "ZeroDivisionError"
                     /\ \/ gtnh_modpack.github_mods = <<>>
                        \/ client_paths = <<>>
                        \/ server_paths = <<>>
    /\ pc = "done" =>
          LET selected == SelectSeq(release.mods, LAMBDA mod : mod.side = side \/ mod.side = "BOTH")
              kept == SelectSeq(release.config, LAMBDA item : item \notin exclusions[side])
              mods == [i \in DOMAIN selected |->
                         ZipEntry(mod_archive_path(fmt, release,
                                      get_asset_version_cache_location(selected[i])),
                                  get_asset_version_cache_location(selected[i]), "add_mods")]
              configs == [i \in DOMAIN kept |->
                            ZipEntry(config_archive_path(fmt, release, kept[i]), kept[i],
                                     "add_config")]
              meta == IF fmt = "MMC"
                      THEN << ZipEntry(MMC_meta_data_path(release), MMC_PACK_JSON,
                                       "add_mmc_meta_data") >>
                      ELSE <<>>
          IN  fs[dest].entries = mods \o configs \o meta
    /\ pc \in {"download_mods_returned", "pack", "packed"} =>
          LET github_mods == gtnh_modpack.github_mods
              client == SelectSeq(github_mods, LAMBDA mod : mod.side \in {"BOTH", "CLIENT"})
              server == SelectSeq(github_mods, LAMBDA mod : mod.side \in {"BOTH", "SERVER"})
          IN  /\ client_paths = [i \in DOMAIN client |-> <<"cache", "/", client[i].name \o ".jar">>]
              /\ server_paths = [i \in DOMAIN server |-> <<"cache", "/", server[i].name \o ".jar">>]
    /\ pc = "packed" =>
          LET paths == IF side = "CLIENT" THEN client_paths ELSE server_paths
              folder == IF side = "CLIENT" THEN "client_archive" ELSE "server_archive"
              writer == IF side = "CLIENT" THEN "pack_clientpack" ELSE "pack_serverpack"
          IN  fs[archive_name(side, gtnh_modpack.modpack_version)].entries =
                 [i \in DOMAIN paths |->
                    ZipEntry(<<paths[i][3]>>, <<"cache", "/", folder, "/", paths[i][3]>>, writer)]

C16_Witness ==
    /\ progress_callback = "None"
    /\ pc = "packed" /\ side = "SERVER"
    /\ Len(fs[archive_name("SERVER", gtnh_modpack.modpack_version)].entries) = 2
    /\ Len(fs[archive_name("CLIENT", gtnh_modpack.modpack_version)].entries) = 1

C19_RemoveNeedsSelectionAndConsent ==
    last_remove # NoCall =>
        /\ ~last_remove.had_selection =>
              /\ listbox = last_remove.before
              /\ ~last_remove.invoked
              /\ last_remove.escaped = "None"
        /\ last_remove.had_selection =>
              LET before == last_remove.before
                  deleted == [i \in 1..(Len(before) - 1) |->
                                IF i < last_remove.index THEN before[i] ELSE before[i + 1]]
                  consent == delete_callback = "None" \/ last_remove.outcome = "true"
              IN  /\ consent => listbox = deleted
                  /\ ~consent => listbox = before
                  /\ last_remove.invoked <=> delete_callback # "None"

C19_Witness ==
    /\ last_remove # NoCall /\ last_remove.had_selection
    /\ delete_callback # "None" /\ last_remove.outcome = "false"
    /\ Len(listbox) = 2 /\ listbox[1] # listbox[2]

\* C20: ArchiveFrame.start runs its eight stages in the order download mods,
\* sort mods, extra files, client archive, server archive, technic assets,
\* curse deploader, curse archive, each after the previous one returned and
\* after the global progress was advanced by 100/8: the global progress is
\* k * 12.5 when the k-th stage starts, and 100 when the last one starts.
C20_StageKStartsAtKTimes12_5 ==
    /\ \A k \in DOMAIN stage_log :
          /\ stage_log[k].name = StageNames[k]
          /\ stage_log[k].progress = k * 1250
          /\ k = 8 => stage_log[k].progress = 10000
    /\ start_pc = "running" => Len(stage_log) = stage
    /\ start_pc = "ready" => Len(stage_log) = stage - 1

\* C21: when a stage of ArchiveFrame.start raises PackingInterruptException,
\* start returns without propagating it, no later stage is executed (no
\* client or server archive after a failed extra-files stage) and the global
\* progress stays at the value reported for the failed stage.
C21_InterruptEndsTheRunQuietly ==
    caught = "PackingInterruptException" =>
        /\ start_pc = "idle"
        /\ start_err = "None"
        /\ stage_log # <<>>
        /\ \A k \in DOMAIN stage_log : stage_log[k].name = StageNames[k]
        /\ stage_log[Len(stage_log)].name = "handle_pack_extra_files"
        /\ \A k \in DOMAIN stage_log :
              stage_log[k].name \notin {"pack_clientpack", "pack_serverpack"}
        /\ progress_bar_global = stage_log[Len(stage_log)].progress

C21_Witness ==
    /\ caught = "PackingInterruptException" /\ start_pc = "idle"
    /\ runs = 2
    /\ Len(stage_log) = 3
    /\ progress_bar_global = 10000

\* C22: under any sequence of _progress_callback invocations with non-negative
\* deltas each progress bar stays between 0 and 100, never decreases, and
\* stays at 100 once it has reached 100.
C22_BarsAreMonotoneAndCapped ==
    /\ [](/\ progress_bar \in 0..10000
          /\ progress_bar_global \in 0..10000)
    /\ [][ /\ progress_bar' >= progress_bar
           /\ progress_bar_global' >= progress_bar_global
           /\ progress_bar = 10000 => progress_bar' = 10000
           /\ progress_bar_global = 10000 => progress_bar_global' = 10000 ]_vars

C22_Witness ==
    /\ runs = 2 /\ start_pc = "running"
    /\ StageNames[stage] = "pack_clientpack"
    /\ task.n = 3 /\ task.i = 2
    /\ progress_bar = 10000
    /\ progress_bar_global = 10000

\* C23: validate_callback is guarded against re-entrancy: an invocation that
\* starts while is_messagebox_open is True returns False without querying
\* GitHub or modifying github_mods, and is_messagebox_open is False whenever no
\* invocation is in progress, on every path out of the function.
C23_GuardedAndReleasedOnEveryPath ==
    /\ (ret # NoCall /\ ret.reentered) =>
          /\ ~ret.repo_added
          /\ ~ret.queried
          /\ gtnh_modpack.github_mods = ret.mods_before
          /\ saved = ret.saved_before
    /\ invocation = NoCall => ~is_messagebox_open

C25_SavedExclusionsFollowTheListbox ==
    last_edit # NoCall =>
        LET mode == last_edit.mode
            other == CHOOSE m \in Modes : m # mode
            list == manifest_exclusions(gtnh_modpack, mode)
            Holds(entries, e) == \E i \in DOMAIN entries : entries[i] = e
        IN  /\ list = sorted(excl_listbox[mode])
            /\ saved_exclusions[mode] = list
            /\ (last_edit.op = "add" /\ last_edit.entry # "") => Holds(list, last_edit.entry)
            /\ (last_edit.op = "remove" /\ ~Holds(excl_listbox[mode], last_edit.entry))
                  => ~Holds(list, last_edit.entry)
            /\ ~Holds(list, "")
            /\ manifest_exclusions(gtnh_modpack, other)
                  = manifest_exclusions(last_edit.manifest_before, other)

\* C26: what a side gets does not depend on the exclusions of the other side.
\* When the exclusions of the other side are changed and nothing else, a
\* completed assemble of the side writes the same set of entries as before, and
\* handle_pack_extra_files selects the same files for the side as before; and
\* a path that is excluded for CLIENT and not for SERVER is present in what
\* SERVER gets.
C26_OneSideIgnoresTheOtherSidesExclusions ==
    /\ (baseline # NoCall /\ pc = "done" /\ side = baseline.side)
          => EntrySet(fs[dest]) = baseline.entries
    /\ (baseline # NoCall /\ extra_files # NoCall)
          => extra_files[baseline.side] = baseline.entries
    /\ (pc = "done" /\ side = "SERVER")
          => \A i \in DOMAIN release.config :
                (release.config[i] \in exclusions["CLIENT"] \ exclusions["SERVER"])
                   => \E e \in EntrySet(fs[dest]) : e.data = release.config[i]
    /\ extra_files # NoCall
          => \A file \in crawl(temp_dir, gtnh_archive) :
                (file \in excluded_paths(gtnh_modpack.client_exclusions)
                              \ excluded_paths(gtnh_modpack.server_exclusions))
                   => file \in extra_files["SERVER"]

\* a CLIENT archive with a kept and a dropped config entry, rebuilt after the
\* SERVER exclusions were changed
C26_Witness ==
    /\ baseline # NoCall /\ pc = "done" /\ side = "CLIENT" /\ baseline.side = "CLIENT"
    /\ exclusions["CLIENT"] = {<<"sub", "/", "b.cfg">>}
    /\ exclusions["SERVER"] = {<<"sub">>}
    /\ \E e \in EntrySet(fs[dest]) : e.data = <<"sub", "/">>
    /\ \E i \in DOMAIN release.config : release.config[i] = <<"sub", "/", "b.cfg">>
====
